---- MODULE Spec2Model ----
(***************************************************************************)
(* A model of convert-blog.py: the markdown blog converter.                *)
(*                                                                         *)
(* Python strings are modelled as sequences of one-character strings, so   *)
(* that slicing, searching, stripping and lexicographic comparison are     *)
(* computed character by character as the interpreter does.               *)
(***************************************************************************)
EXTENDS Integers, Sequences, FiniteSets, TLC

VARIABLES
    indexFile,  \* blogs/blogs.yaml: [exists, doc], doc the YAML document
    pages,      \* blogs/<id>.html: the generated pages, id -> content
    template,   \* blogs/_blog_template.html: [exists, content]
    lastOp,     \* what the last run of the script did (history, for the claims)
    call,       \* the pure function applied and its arguments
    ret         \* its result

vars == <<indexFile, pages, template, lastOp, call, ret>>

(***************************************************************************)
(* Characters                                                              *)
(***************************************************************************)

\* The printable ASCII characters, in code order from 32 (space) to 126 (code 96,
\* the grave accent, cannot be written in a TLA+ string and is held by a name).
Printable ==
  << " ", "!", "\"", "#", "$", "%", "&", "'", "(", ")", "*", "+", ",", "-", ".", "/",
     "0", "1", "2", "3", "4", "5", "6", "7", "8", "9", ":", ";", "<", "=", ">", "?",
     "@", "A", "B", "C", "D", "E", "F", "G", "H", "I", "J", "K", "L", "M", "N", "O",
     "P", "Q", "R", "S", "T", "U", "V", "W", "X", "Y", "Z", "[", "\\", "]", "^", "_",
     "GRAVE", "a", "b", "c", "d", "e", "f", "g", "h", "i", "j", "k", "l", "m", "n", "o",
     "p", "q", "r", "s", "t", "u", "v", "w", "x", "y", "z", "{", "|", "}", "~" >>

\* Code point of each modelled character (tab and newline besides the printables).
OrdTable ==
  [c \in {Printable[i] : i \in 1..Len(Printable)} |->
      31 + (CHOOSE i \in 1..Len(Printable) : Printable[i] = c)]
  @@ ("\t" :> 9) @@ ("\n" :> 10)

Ord(c) == OrdTable[c]

Chr(n) == IF n = 9 THEN "\t" ELSE IF n = 10 THEN "\n" ELSE Printable[n - 31]

\* [0-9]
IsDigit(c) == Ord(c) >= 48 /\ Ord(c) <= 57

\* [a-zA-Z]
IsAlpha(c) ==
  \/ Ord(c) >= 65 /\ Ord(c) <= 90
  \/ Ord(c) >= 97 /\ Ord(c) <= 122

\* \s of the re module and the whitespace of str.strip(), on ASCII
IsSpace(c) == Ord(c) \in {9, 10, 11, 12, 13, 28, 29, 30, 31, 32}

\* str.lower() on one ASCII character
LowerChar(c) == IF Ord(c) >= 65 /\ Ord(c) <= 90 THEN Chr(Ord(c) + 32) ELSE c

\* str.upper() on one ASCII character
UpperChar(c) == IF Ord(c) >= 97 /\ Ord(c) <= 122 THEN Chr(Ord(c) - 32) ELSE c

(***************************************************************************)
(* Strings: the str methods the script uses                                *)
(***************************************************************************)

\* s[i:] with i counted from 1
From(s, i) == SubSeq(s, i, Len(s))

\* str.lower()
Lower(s) == [i \in 1..Len(s) |-> LowerChar(s[i])]

\* s.startswith(p)
StartsWith(s, p) == Len(s) >= Len(p) /\ SubSeq(s, 1, Len(p)) = p

\* s.find(p, from): the first position >= from where p occurs, 0 when none
Find(s, p, from) ==
  LET hits == {i \in from..(Len(s) - Len(p) + 1) : SubSeq(s, i, i + Len(p) - 1) = p}
  IN  IF hits = {} THEN 0 ELSE CHOOSE i \in hits : \A j \in hits : i <= j

\* c in s
Contains(s, c) == \E i \in 1..Len(s) : s[i] = c

\* s.lstrip(chars), s.rstrip(chars), s.strip(chars) for a set of characters
LStripSet(s, cs) ==
  LET keep == {i \in 1..Len(s) : s[i] \notin cs}
  IN  IF keep = {} THEN <<>>
      ELSE From(s, CHOOSE i \in keep : \A j \in keep : i <= j)

RStripSet(s, cs) ==
  LET keep == {i \in 1..Len(s) : s[i] \notin cs}
  IN  IF keep = {} THEN <<>>
      ELSE SubSeq(s, 1, CHOOSE i \in keep : \A j \in keep : i >= j)

StripSet(s, cs) == RStripSet(LStripSet(s, cs), cs)

\* the whitespace characters of the model
Whitespace == {c \in DOMAIN OrdTable : IsSpace(c)}

\* s.strip()
Strip(s) == StripSet(s, Whitespace)

\* a < b, a <= b on str: lexicographic by code point
RECURSIVE StrLess(_, _)
StrLess(a, b) ==
  IF b = <<>> THEN FALSE
  ELSE IF a = <<>> THEN TRUE
  ELSE IF a[1] # b[1] THEN Ord(a[1]) < Ord(b[1])
  ELSE StrLess(Tail(a), Tail(b))

StrLeq(a, b) == a = b \/ StrLess(a, b)

\* s.split(sep) for a non-empty separator string
RECURSIVE Split(_, _)
Split(s, sep) ==
  LET at == Find(s, sep, 1)
  IN  IF at = 0 THEN <<s>>
      ELSE <<SubSeq(s, 1, at - 1)>> \o Split(From(s, at + Len(sep)), sep)

\* str(n) for a natural number
RECURSIVE IntToStr(_)
IntToStr(n) ==
  IF n < 10 THEN <<Chr(48 + n)>> ELSE IntToStr(n \div 10) \o <<Chr(48 + (n % 10))>>

\* int(s) for a string of ASCII digits
RECURSIVE StrToInt(_)
StrToInt(s) ==
  IF s = <<>> THEN 0
  ELSE 10 * StrToInt(SubSeq(s, 1, Len(s) - 1)) + (Ord(s[Len(s)]) - 48)

(***************************************************************************)
(* create_blog_id                                                          *)
(***************************************************************************)

\* re.sub(r"[^a-zA-Z0-9\s]", "", s): drop every other character
KeepAlnumSpace(c) == IsAlpha(c) \/ IsDigit(c) \/ IsSpace(c)

RemoveSpecial(s) == SelectSeq(s, KeepAlnumSpace)

\* re.sub(r"\s+", "-", s): every maximal whitespace run becomes one hyphen
RECURSIVE CollapseSpaces(_)
CollapseSpaces(s) ==
  IF s = <<>> THEN <<>>
  ELSE IF IsSpace(s[1])
       THEN <<"-">> \o CollapseSpaces(LStripSet(s, Whitespace))
       ELSE <<s[1]>> \o CollapseSpaces(Tail(s))

\* calendar: days in a month of the proleptic Gregorian calendar (datetime)
IsLeap(y) == (y % 4 = 0) /\ ((y % 100 # 0) \/ (y % 400 = 0))

DaysInMonth(y, m) ==
  IF m = 2 THEN (IF IsLeap(y) THEN 29 ELSE 28)
  ELSE IF m \in {4, 6, 9, 11} THEN 30 ELSE 31

\* The month directive %m at position p: (1[0-2]|0[1-9]|[1-9]); the length matched
\* given that a "-" must follow, 0 when nothing matches.
MonthLen(d, p) ==
  IF /\ Len(d) >= p + 2
     /\ \/ d[p] = "1" /\ d[p + 1] \in {"0", "1", "2"}
        \/ d[p] = "0" /\ IsDigit(d[p + 1]) /\ d[p + 1] # "0"
     /\ d[p + 2] = "-"
  THEN 2
  ELSE IF Len(d) >= p + 1 /\ IsDigit(d[p]) /\ d[p] # "0" /\ d[p + 1] = "-"
  THEN 1
  ELSE 0

\* The day directive %d at position p: (3[01]|[12]\d|0[1-9]|[1-9]| [1-9]); the
\* length of the first alternative that matches, 0 when none does.
DayLen(d, p) ==
  IF /\ Len(d) >= p + 1
     /\ \/ d[p] = "3" /\ d[p + 1] \in {"0", "1"}
        \/ d[p] \in {"1", "2"} /\ IsDigit(d[p + 1])
        \/ d[p] = "0" /\ IsDigit(d[p + 1]) /\ d[p + 1] # "0"
  THEN 2
  ELSE IF Len(d) >= p /\ IsDigit(d[p]) /\ d[p] # "0"
  THEN 1
  ELSE IF Len(d) >= p + 1 /\ d[p] = " " /\ IsDigit(d[p + 1]) /\ d[p + 1] # "0"
  THEN 2
  ELSE 0

\* datetime.strptime(d, "%Y-%m-%d").year, or -1 where it raises ValueError: the
\* format does not match, data remains unconverted, or the date does not exist.
StrptimeYear(d) ==
  IF ~(Len(d) >= 5 /\ (\A i \in 1..4 : IsDigit(d[i])) /\ d[5] = "-") THEN -1
  ELSE LET ml == MonthLen(d, 6)
           dp == 6 + ml + 1
           dl == DayLen(d, dp)
       IN  IF ml = 0 \/ dl = 0 \/ dp + dl - 1 # Len(d) THEN -1
           ELSE LET y   == StrToInt(SubSeq(d, 1, 4))
                    m   == StrToInt(SubSeq(d, 6, 5 + ml))
                    day == StrToInt(LStripSet(SubSeq(d, dp, Len(d)), {" "}))
                IN  IF y >= 1 /\ day <= DaysInMonth(y, m) THEN y ELSE -1

\* the year part of the identifier (lines 115-128, publication_date a str)
YearOf(publication_date) ==
  LET year == StrptimeYear(publication_date)
  IN  IF year # -1 THEN IntToStr(year)
      ELSE IF Contains(publication_date, "-")
           THEN Split(publication_date, <<"-">>)[1]
           ELSE publication_date

\* create_blog_id without the strip() of line 112
IdWithoutStrip(title, publication_date) ==
  CollapseSpaces(RemoveSpecial(Lower(title))) \o <<"-">> \o YearOf(publication_date)

create_blog_id(title, publication_date) ==
  LET cleaned_title == CollapseSpaces(Strip(RemoveSpecial(Lower(title))))
  IN  cleaned_title \o <<"-">> \o YearOf(publication_date)

(***************************************************************************)
(* clean_text_for_excerpt                                                  *)
(***************************************************************************)

\* re.sub(r"<[^>]+>", "", s): a "<", one or more characters that are not ">", ">"
RECURSIVE RemoveTags(_)
RemoveTags(s) ==
  IF s = <<>> THEN <<>>
  ELSE LET close == IF s[1] = "<" THEN Find(s, <<">">>, 2) ELSE 0
       IN  IF close >= 3 THEN RemoveTags(From(s, close + 1))
           ELSE <<s[1]>> \o RemoveTags(Tail(s))

\* re.sub(r"\*\*([^*]+)\*\*", r"\1", s)
RECURSIVE UnwrapBold(_)
UnwrapBold(s) ==
  IF s = <<>> THEN <<>>
  ELSE LET k == IF StartsWith(s, <<"*", "*">>) THEN Find(s, <<"*">>, 3) ELSE 0
       IN  IF k >= 4 /\ Len(s) >= k + 1 /\ s[k + 1] = "*"
           THEN SubSeq(s, 3, k - 1) \o UnwrapBold(From(s, k + 2))
           ELSE <<s[1]>> \o UnwrapBold(Tail(s))

\* re.sub(r"\*([^*]+)\*", r"\1", s)
RECURSIVE UnwrapItalic(_)
UnwrapItalic(s) ==
  IF s = <<>> THEN <<>>
  ELSE LET k == IF s[1] = "*" THEN Find(s, <<"*">>, 2) ELSE 0
       IN  IF k >= 3
           THEN SubSeq(s, 2, k - 1) \o UnwrapItalic(From(s, k + 1))
           ELSE <<s[1]>> \o UnwrapItalic(Tail(s))

\* re.sub(r"##?\s+", "", s): one or two "#" and the whitespace run after them
RECURSIVE StripHeadings(_)
StripHeadings(s) ==
  IF s = <<>> THEN <<>>
  ELSE LET hashes ==
             IF s[1] # "#" THEN 0
             ELSE IF Len(s) >= 2 /\ s[2] = "#"
                  THEN (IF Len(s) >= 3 /\ IsSpace(s[3]) THEN 2 ELSE 0)
                  ELSE (IF Len(s) >= 2 /\ IsSpace(s[2]) THEN 1 ELSE 0)
       IN  IF hashes > 0
           THEN StripHeadings(LStripSet(From(s, hashes + 1), Whitespace))
           ELSE <<s[1]>> \o StripHeadings(Tail(s))

\* re.sub(r"\[([^\]]+)\]\([^)]+\)", r"\1", s)
RECURSIVE UnwrapLinks(_)
UnwrapLinks(s) ==
  IF s = <<>> THEN <<>>
  ELSE LET k == IF s[1] = "[" THEN Find(s, <<"]">>, 2) ELSE 0
           m == IF k >= 3 /\ Len(s) >= k + 1 /\ s[k + 1] = "("
                THEN Find(s, <<")">>, k + 2) ELSE 0
       IN  IF m >= k + 3 /\ k >= 3
           THEN SubSeq(s, 2, k - 1) \o UnwrapLinks(From(s, m + 1))
           ELSE <<s[1]>> \o UnwrapLinks(Tail(s))

\* lines 147-158: the markup removed, split("\n\n")[0].strip()
FirstParagraph(raw_content) ==
  LET clean_text ==
        UnwrapLinks(StripHeadings(UnwrapItalic(UnwrapBold(RemoveTags(raw_content)))))
  IN  Strip(Split(clean_text, <<"\n", "\n">>)[1])

\* s.rsplit(" ", 1)[0]: what precedes the last space, all of s when it has none
BeforeLastSpace(s) ==
  LET spaces == {i \in 1..Len(s) : s[i] = " "}
  IN  IF spaces = {} THEN s
      ELSE SubSeq(s, 1, (CHOOSE i \in spaces : \A j \in spaces : i >= j) - 1)

Ellipsis == <<".", ".", ".">>

clean_text_for_excerpt(raw_content, max_length) ==
  LET first_paragraph == FirstParagraph(raw_content)
  IN  IF Len(first_paragraph) <= max_length THEN first_paragraph
      ELSE BeforeLastSpace(SubSeq(first_paragraph, 1, max_length)) \o Ellipsis

(***************************************************************************)
(* parse_yaml_frontmatter                                                  *)
(***************************************************************************)

Delimiter == <<"-", "-", "-", "\n">>              \* "---\n"
ClosingDelimiter == <<"\n", "-", "-", "-", "\n">>  \* r"\n---\n"

\* the last colon of the line, as line.rsplit(":", 1) would split
LastColon(line) ==
  LET colons == {i \in 1..Len(line) : line[i] = ":"}
  IN  IF colons = {} THEN 0 ELSE CHOOSE i \in colons : \A j \in colons : i >= j

\* line 87: the split is at the first colon of the line
FirstColon(line) == Find(line, <<":">>, 1)

\* lines 83-90: the pair of a stripped line that has a colon put in the dict built so
\* far (a later pair with the same key replaces the earlier one)
SplitPair(frontmatter_data, line, colon) ==
  IF line = <<>> \/ colon = 0 THEN frontmatter_data
  ELSE (Strip(SubSeq(line, 1, colon - 1))
          :> StripSet(Strip(From(line, colon + 1)), {"'", "\""})) @@ frontmatter_data

\* lines 81-90: one line of the block folded into the dict
ParseLine(frontmatter_data, raw_line) ==
  LET line == Strip(raw_line)
      colon == FirstColon(line)
  IN  SplitPair(frontmatter_data, line, colon)

RECURSIVE ParseLines(_, _)
ParseLines(frontmatter_data, lines) ==
  IF lines = <<>> THEN frontmatter_data
  ELSE ParseLines(ParseLine(frontmatter_data, Head(lines)), Tail(lines))

parse_yaml_frontmatter(markdown_content) ==
  LET closing == Find(markdown_content, ClosingDelimiter, 1)
  IN  IF ~StartsWith(markdown_content, Delimiter) \/ closing = 0
      THEN [frontmatter_data |-> <<>>, content |-> markdown_content]
      ELSE [frontmatter_data |->
              ParseLines(<<>>, Split(SubSeq(markdown_content, 5, closing - 1), <<"\n">>)),
            content |-> From(markdown_content, closing + 5)]

(***************************************************************************)
(* Values a Python name may hold besides a str or a dict                   *)
(***************************************************************************)

None == [isNone |-> TRUE]
Some(v) == [isNone |-> FALSE, value |-> v]

(***************************************************************************)
(* generate_blog_html                                                      *)
(*                                                                         *)
(* The template is a sequence of tokens: "OGS" the comment line that opens *)
(* the Open Graph block, "OGE" the og:image:height tag that closes it,     *)
(* "HEAD" the closing </head> tag, "TXT" any other markup.                 *)
(***************************************************************************)

SiteBase ==
  <<"h","t","t","p","s",":","/","/","f","j","f","e","h","r",".","g","i","t","h","u","b",".","i","o","/">>
Http == <<"h","t","t","p">>
DEFAULT_BLOGS_DIR == <<"b","l","o","g","s">>
HtmlSuffix == <<".","h","t","m","l">>

\* re.search(og_pattern, template_content, re.DOTALL): an "OGS" with an "OGE" after it
HasOgBlock(template_content) ==
  \E i \in 1..Len(template_content) :
    /\ template_content[i] = "OGS"
    /\ \E j \in (i + 1)..Len(template_content) : template_content[j] = "OGE"

\* The escapes of a replacement string given to re.sub, which has no group to refer
\* to: [ok |-> FALSE] where the re module raises, else the expanded text. Control
\* characters outside the model's alphabet are held by their names.
NamedEscapes ==
  [a |-> "BEL", b |-> "BS", f |-> "FF", n |-> "\n", r |-> "CR", t |-> "\t", v |-> "VT"]
IsOctal(c) == Ord(c) >= 48 /\ Ord(c) <= 55

\* the digits of an octal escape that starts at s[2]
OctalLen(s) ==
  IF Len(s) >= 4 /\ s[2] \in {"0", "1", "2", "3"} /\ IsOctal(s[3]) /\ IsOctal(s[4]) THEN 3
  ELSE IF s[2] # "0" THEN 0
  ELSE IF Len(s) >= 3 /\ IsOctal(s[3]) THEN 2
  ELSE 1

\* The escape at the start of s, which starts with a backslash: whether the re module
\* accepts it, what it stands for and how many characters it takes.
BadEscape == [ok |-> FALSE, text |-> <<>>, len |-> 1]
ExpandEscape(s) ==
  IF Len(s) = 1 THEN BadEscape
  ELSE IF s[2] = "g"
  THEN IF Len(s) >= 5 /\ SubSeq(s, 3, 5) = <<"<", "0", ">">>
       THEN [ok |-> TRUE, text |-> <<"MATCH">>, len |-> 5]
       ELSE BadEscape
  ELSE IF OctalLen(s) > 0 THEN [ok |-> TRUE, text |-> <<"OCTAL">>, len |-> OctalLen(s) + 1]
  ELSE IF IsDigit(s[2]) THEN BadEscape
  ELSE IF IsAlpha(s[2])
  THEN IF s[2] \in DOMAIN NamedEscapes
       THEN [ok |-> TRUE, text |-> <<NamedEscapes[s[2]]>>, len |-> 2]
       ELSE BadEscape
  ELSE [ok |-> TRUE, text |-> IF s[2] = "\\" THEN <<"\\">> ELSE <<"\\", s[2]>>, len |-> 2]

Expanded(text, escape, rest) ==
  [ok |-> escape.ok /\ rest.ok, text |-> text \o escape.text \o rest.text]

\* the text up to the next backslash is copied, the escape there expanded
RECURSIVE ExpandRepl(_)
ExpandFrom(s, backslash) ==
  IF backslash = 0 THEN [ok |-> TRUE, text |-> s]
  ELSE LET escape == ExpandEscape(From(s, backslash))
           rest == ExpandRepl(From(s, backslash + escape.len))
       IN  Expanded(SubSeq(s, 1, backslash - 1), escape, rest)

ExpandRepl(s) ==
  LET backslash == Find(s, <<"\\">>, 1)
  IN  ExpandFrom(s, backslash)

\* re.sub(og_pattern, og_tags, template_content, flags=re.DOTALL): every block from
\* an "OGS" to the first "OGE" after it becomes the post's tags
RECURSIVE ReplaceOgBlocks(_, _)
ReplaceOgBlocks(template_content, og_tags) ==
  IF template_content = <<>> THEN <<>>
  ELSE LET close == IF Head(template_content) = "OGS"
                    THEN Find(template_content, <<"OGE">>, 2) ELSE 0
       IN  IF close > 0
           THEN <<og_tags>> \o ReplaceOgBlocks(From(template_content, close + 1), og_tags)
           ELSE <<[t |-> Head(template_content)]>>
                \o ReplaceOgBlocks(Tail(template_content), og_tags)

\* updated_content.replace("</head>", f"{auto_load_script}\n</head>")
RECURSIVE InsertScript(_, _)
InsertScript(content, auto_load_script) ==
  IF content = <<>> THEN <<>>
  ELSE (IF Head(content) = [t |-> "HEAD"] THEN <<auto_load_script>> ELSE <<>>)
       \o <<Head(content)>> \o InsertScript(Tail(content), auto_load_script)

\* the page at blogs/<id>.html, None when there is none
PageAt(pgs, blog_id) == IF blog_id \in DOMAIN pgs THEN Some(pgs[blog_id]) ELSE None

\* lines 196-213: the text of og_tags between its fixed parts, as re.sub reads it
OgReplacement(blog_metadata) ==
  blog_metadata.title \o <<"\"">> \o blog_metadata.excerpt \o <<"\"">>
  \o blog_metadata.id \o <<".">>
  \o (IF StartsWith(blog_metadata.thumbnail, Http) THEN blog_metadata.thumbnail
      ELSE SiteBase \o blog_metadata.thumbnail)
  \o <<"\"">>

\* lines 227-242
AutoLoadScript(blog_metadata, blog_content) ==
  [t |-> "SCRIPT", BLOG_POST_ID |-> blog_metadata.id,
   BLOG_POST_DATA |-> [title |-> blog_metadata.title,
                       date |-> blog_metadata.date,
                       content |-> blog_content]]

\* lines 218-262: re.sub with the replacement og_repl, then the page is written;
\* an exception of re.sub is caught and None returned
WritePage(blog_metadata, blog_content, tpl, pgs, og_repl) ==
  IF ~og_repl.ok THEN [result |-> None, pages |-> pgs]
  ELSE [result |-> Some(DEFAULT_BLOGS_DIR \o <<"/">> \o blog_metadata.id \o HtmlSuffix),
        pages |-> (blog_metadata.id :>
                     InsertScript(ReplaceOgBlocks(tpl.content,
                                                  [t |-> "OG", text |-> og_repl.text]),
                                  AutoLoadScript(blog_metadata, blog_content))) @@ pgs]

\* generate_blog_html without the checks of lines 188-190 and 218-224: the page is
\* written from whatever the template holds
GenerateUnchecked(blog_metadata, blog_content, tpl, pgs) ==
  LET og_repl == ExpandRepl(OgReplacement(blog_metadata))
  IN  WritePage(blog_metadata, blog_content, tpl, pgs, og_repl)

\* The result (the path written, or None) and the pages afterwards.
generate_blog_html(blog_metadata, blog_content, tpl, pgs) ==
  IF ~tpl.exists THEN [result |-> None, pages |-> pgs]
  ELSE IF ~HasOgBlock(tpl.content) THEN [result |-> None, pages |-> pgs]
  ELSE LET og_repl == ExpandRepl(OgReplacement(blog_metadata))
       IN  WritePage(blog_metadata, blog_content, tpl, pgs, og_repl)

(***************************************************************************)
(* convert_markdown_to_json                                                *)
(*                                                                         *)
(* A markdown file is [name, exists, readable, content]: its stem, whether *)
(* the path exists, whether open() and read() succeed, and its text.       *)
(***************************************************************************)

TitleKey == <<"t","i","t","l","e">>
DateKey == <<"d","a","t","e">>
ExcerptKey == <<"e","x","c","e","r","p","t">>
ThumbnailKey == <<"t","h","u","m","b","n","a","i","l">>

\* d.get(key, default)
Get(d, key, default) == IF key \in DOMAIN d THEN d[key] ELSE default

\* s.replace("-", " ")
HyphensToSpaces(s) == [i \in 1..Len(s) |-> IF s[i] = "-" THEN " " ELSE s[i]]

\* str.title(): a letter is upper-cased after a character that is not a letter and
\* lower-cased after a letter
TitleCase(s) ==
  [i \in 1..Len(s) |->
     IF i > 1 /\ IsAlpha(s[i - 1]) THEN LowerChar(s[i]) ELSE UpperChar(s[i])]

\* lines 316-327: the record and the body text
PostRecord(frontmatter_data, post_title, post_date, markdown_content) ==
  Some([blog_metadata |->
          [id |-> create_blog_id(post_title, post_date),
           title |-> post_title,
           date |-> post_date,
           excerpt |-> Get(frontmatter_data, ExcerptKey, <<>>),
           thumbnail |-> Get(frontmatter_data, ThumbnailKey, <<>>)],
        markdown_content |-> markdown_content])

\* lines 312-315: the title and the date, with their defaults; today is
\* datetime.now().strftime("%Y-%m-%d")
PostOf(parsed, name, today) ==
  LET post_title == Get(parsed.frontmatter_data, TitleKey,
                        TitleCase(HyphensToSpaces(name)))
      post_date == Get(parsed.frontmatter_data, DateKey, today)
  IN  PostRecord(parsed.frontmatter_data, post_title, post_date, parsed.content)

\* lines 287-327: the record built from the file and its body text, None when the
\* file is missing or unreadable
ReadPost(markdown_file, today) ==
  IF ~markdown_file.exists \/ ~markdown_file.readable THEN None
  ELSE LET parsed == parse_yaml_frontmatter(markdown_file.content)
       IN  PostOf(parsed, markdown_file.name, today)

(***************************************************************************)
(* The markdown files and the days of the model                            *)
(***************************************************************************)

\* A document built from a metadata mapping (its pairs in order) and a body: the
\* opening delimiter line, one "key: value" line per pair, the closing delimiter
\* line, the body.
RECURSIVE PairLines(_)
PairLines(pairs) ==
  IF pairs = <<>> THEN <<>>
  ELSE Head(pairs).key \o <<":", " ">> \o Head(pairs).value \o <<"\n">>
       \o PairLines(Tail(pairs))

BuildDoc(pairs, body) == Delimiter \o PairLines(pairs) \o Delimiter \o body

MdFile(name, content) ==
  [name |-> name, exists |-> TRUE, readable |-> TRUE, content |-> content]

\* title "My Post", January 2024
PostA ==
  MdFile(<<"a">>,
         BuildDoc(<< [key |-> TitleKey, value |-> <<"M","y"," ","P","o","s","t">>],
                     [key |-> DateKey, value |-> <<"2","0","2","4","-","0","1","-","1","5">>],
                     [key |-> ThumbnailKey, value |-> <<"h","t","t","p",":","t">>] >>,
                  <<"H","i">>))

\* Another file with the title and the year of PostA, so with its identifier. Its
\* excerpt is quoted, and re.sub cannot take it as a replacement string ("\d").
PostB ==
  MdFile(<<"b">>,
         BuildDoc(<< [key |-> TitleKey, value |-> <<"M","y"," ","P","o","s","t">>],
                     [key |-> DateKey, value |-> <<"2","0","2","4","-","0","6","-","3","0">>],
                     [key |-> ExcerptKey, value |-> <<"\"","\\","d","\"">>] >>,
                  <<"\n","Y","o","\n">>))

\* no frontmatter: the title comes from the file name, the date from the clock
PostN == MdFile(<<"n","e","w","-","n","o","t","e">>, <<"H","i","\n">>)

Unreadable == [name |-> <<"u">>, exists |-> TRUE, readable |-> FALSE, content |-> <<>>]
Missing == [name |-> <<"m">>, exists |-> FALSE, readable |-> FALSE, content |-> <<>>]

DirFiles == {PostA, PostB, PostN, Unreadable}

\* the days the script is run on: the date of PostA, and a later one
Todays == { <<"2","0","2","4","-","0","1","-","1","5">>,
            <<"2","0","2","4","-","0","3","-","0","1">> }


\* lines 329-337 if a failed HTML step made the conversion fail
ConvertedIfPage(blog_metadata, html) ==
  IF html.result.isNone
  THEN [blog_metadata |-> None, html_path |-> None, pages |-> html.pages]
  ELSE [blog_metadata |-> Some(blog_metadata), html_path |-> html.result,
        pages |-> html.pages]

\* lines 329-337: the record is returned whatever the HTML step gave
Converted(blog_metadata, html) ==
  [blog_metadata |-> Some(blog_metadata), html_path |-> html.result, pages |-> html.pages]

HtmlStep(read, tpl, pgs) ==
  IF read.isNone THEN [blog_metadata |-> None, html_path |-> None, pages |-> pgs]
  ELSE LET html == generate_blog_html(read.value.blog_metadata,
                                      Strip(read.value.markdown_content), tpl, pgs)
       IN  Converted(read.value.blog_metadata, html)

\* The record returned (None when the file is missing or unreadable), the result of
\* the HTML step (None when it was not reached or failed) and the pages afterwards.
convert_markdown_to_json(markdown_file, today, tpl, pgs) ==
  LET read == ReadPost(markdown_file, today)
  IN  HtmlStep(read, tpl, pgs)

(***************************************************************************)
(* blogs.yaml: yaml.dump and yaml.safe_load of a list of records           *)
(***************************************************************************)

\* The type a plain (unquoted) scalar resolves to.
YamlImplicitType(text) ==
  LET digits(t) == t # <<>> /\ \A i \in 1..Len(t) : IsDigit(t[i])
      dash1 == Find(text, <<"-">>, 1)
      dash2 == IF dash1 = 0 THEN 0 ELSE Find(text, <<"-">>, dash1 + 1)
  IN  IF text \in {<<>>, <<"~">>, <<"n","u","l","l">>, <<"N","u","l","l">>,
                   <<"N","U","L","L">>}
      THEN "null"
      ELSE IF Lower(text) \in {<<"y","e","s">>, <<"n","o">>, <<"t","r","u","e">>,
                               <<"f","a","l","s","e">>, <<"o","n">>, <<"o","f","f">>}
      THEN "bool"
      ELSE IF digits(text) \/ (text[1] \in {"-", "+"} /\ digits(Tail(text)))
      THEN "int"
      ELSE IF /\ dash1 = 5 /\ dash2 \in {7, 8}
              /\ digits(SubSeq(text, 1, 4))
              /\ digits(SubSeq(text, 6, dash2 - 1))
              /\ Len(text) - dash2 \in {1, 2}
              /\ digits(From(text, dash2 + 1))
      THEN "timestamp"
      ELSE "str"

\* A str is written plain when a plain scalar reads back as a str, quoted otherwise.
YamlDumpScalar(text) ==
  [style |-> IF YamlImplicitType(text) = "str" THEN "plain" ELSE "quoted", text |-> text]

\* A quoted scalar is a str; a plain one has the type it resolves to.
YamlLoadScalar(node) ==
  IF node.style = "quoted" \/ YamlImplicitType(node.text) = "str" THEN node.text
  ELSE [type |-> YamlImplicitType(node.text), text |-> node.text]

YamlDump(blogs) ==
  [i \in 1..Len(blogs) |-> [k \in DOMAIN blogs[i] |-> YamlDumpScalar(blogs[i][k])]]

YamlLoad(doc) ==
  [i \in 1..Len(doc) |-> [k \in DOMAIN doc[i] |-> YamlLoadScalar(doc[i][k])]]

\* lines 360-368: the records of the index file, [] when there is none
LoadIndex(file) == IF file.exists THEN YamlLoad(file.doc) ELSE <<>>

(***************************************************************************)
(* update_blogs_index_file, batch_convert_all_markdown_files               *)
(***************************************************************************)

\* list.sort(key=lambda blog: blog["date"], reverse=True): stable, descending
RECURSIVE InsertByDate(_, _)
InsertByDate(sorted, blog) ==
  IF sorted = <<>> THEN <<blog>>
  ELSE IF StrLess(Head(sorted).date, blog.date) THEN <<blog>> \o sorted
  ELSE <<Head(sorted)>> \o InsertByDate(Tail(sorted), blog)

\* the list left in the order it has, as if line 386 were missing
Unsorted(blogs) == blogs

RECURSIVE SortByDateDesc(_)
SortByDateDesc(blogs) ==
  IF blogs = <<>> THEN <<>>
  ELSE InsertByDate(SortByDateDesc(SubSeq(blogs, 1, Len(blogs) - 1)), blogs[Len(blogs)])

\* lines 370-383 without the append of lines 381-383
ReplaceOnly(existing_blogs, new_blog_metadata) ==
  [i \in 1..Len(existing_blogs) |->
     IF existing_blogs[i].id = new_blog_metadata.id
        /\ \A j \in 1..(i - 1) : existing_blogs[j].id # new_blog_metadata.id
     THEN new_blog_metadata ELSE existing_blogs[i]]

\* lines 370-383: replace the first record with the new record's id, else append
Upsert(existing_blogs, new_blog_metadata) ==
  LET matches == {i \in 1..Len(existing_blogs) :
                    existing_blogs[i].id = new_blog_metadata.id}
  IN  IF matches # {}
      THEN [existing_blogs EXCEPT ![CHOOSE i \in matches : \A j \in matches : i <= j] =
                                     new_blog_metadata]
      ELSE Append(existing_blogs, new_blog_metadata)

\* the index file after the update
update_blogs_index_file(new_blog_metadata, file) ==
  [exists |-> TRUE,
   doc |-> YamlDump(SortByDateDesc(Upsert(LoadIndex(file), new_blog_metadata)))]

\* What one conversion did, for the history: the record returned, the result of
\* the HTML step, and the page of that identifier before and after.
Conversion(conv, pgs) ==
  LET blog_id == IF conv.blog_metadata.isNone THEN <<>> ELSE conv.blog_metadata.value.id
  IN  [blog_metadata |-> conv.blog_metadata,
       html_path |-> conv.html_path,
       pageBefore |-> PageAt(pgs, blog_id),
       pageAfter |-> PageAt(conv.pages, blog_id)]

\* lines 437-442: one turn of the loop
Converts(run, conv) ==
  [converted |-> Append(run.converted, Conversion(conv, run.pages)), pages |-> conv.pages]

\* lines 436-442: each file converted in turn; the conversions and the pages after
RECURSIVE ConvertEach(_, _, _, _)
ConvertEach(markdown_files, today, tpl, run) ==
  IF markdown_files = <<>> THEN run
  ELSE LET conv == convert_markdown_to_json(Head(markdown_files), today, tpl, run.pages)
           next == Converts(run, conv)
       IN  ConvertEach(Tail(markdown_files), today, tpl, next)

RECURSIVE Collected(_)
Collected(converted) ==
  IF converted = <<>> THEN <<>>
  ELSE (IF Head(converted).blog_metadata.isNone THEN <<>>
        ELSE <<Head(converted).blog_metadata.value>>) \o Collected(Tail(converted))

\* lines 444-468 if the run's records were added to those of the index file
MergeCollected(file, run, all_blog_metadata) ==
  IF all_blog_metadata # <<>>
  THEN [indexFile |-> [exists |-> TRUE,
                       doc |-> YamlDump(SortByDateDesc(LoadIndex(file)
                                                       \o all_blog_metadata))],
        pages |-> run.pages, converted |-> run.converted, wrote |-> TRUE]
  ELSE [indexFile |-> file, pages |-> run.pages,
        converted |-> run.converted, wrote |-> FALSE]

\* lines 444-468: the index is written from the records of this run alone, and only
\* when there is one
WriteCollected(file, run, all_blog_metadata) ==
  IF all_blog_metadata # <<>>
  THEN [indexFile |-> [exists |-> TRUE,
                       doc |-> YamlDump(SortByDateDesc(all_blog_metadata))],
        pages |-> run.pages, converted |-> run.converted, wrote |-> TRUE]
  ELSE [indexFile |-> file, pages |-> run.pages,
        converted |-> run.converted, wrote |-> FALSE]

WriteIndex(file, run) ==
  LET all_blog_metadata == Collected(run.converted)
  IN  WriteCollected(file, run, all_blog_metadata)

\* The posts directory is [exists, files], files in the order glob yields them.
\* The index file, the pages and the conversions after the run.
batch_convert_all_markdown_files(posts, today, tpl, file, pgs) ==
  IF ~posts.exists \/ posts.files = <<>>
  THEN [indexFile |-> file, pages |-> pgs, converted |-> <<>>, wrote |-> FALSE]
  ELSE LET run == ConvertEach(posts.files, today, tpl, [converted |-> <<>>, pages |-> pgs])
       IN  WriteIndex(file, run)

(***************************************************************************)
(* Applying one pure function to inputs drawn from bounded sets            *)
(***************************************************************************)

\* all strings over an alphabet up to a length
StringsUpTo(alphabet, n) == UNION {[1..k -> alphabet] : k \in 0..n}

NoCall == [fn |-> "none"]
NoRet == [done |-> FALSE]

\* the files of the site before the script has ever run
NoIndex == [exists |-> FALSE, doc |-> <<>>]
NoTemplate == [exists |-> FALSE, content |-> <<>>]
NoOp == [op |-> "none"]

FilesUntouched == UNCHANGED <<indexFile, pages, template, lastOp>>

FilesInit ==
  /\ indexFile = NoIndex
  /\ pages = <<>>
  /\ template = NoTemplate
  /\ lastOp = NoOp

\* ---- create_blog_id ----

MaxTitleLen == 3

TitleAlphabet == {"A", "b", " ", "!", "1"}

Titles ==
  StringsUpTo(TitleAlphabet, MaxTitleLen)
  \cup { <<"M","y"," ","G","r","e","a","t"," ","P","o","s","t">>,
         <<" ","a","-","b","\t","\n","C","#","2"," ">>,
         <<"-","-","x","_","y"," "," ","z","-">> }

YearParts == { <<"2","0","2","4">>, <<"0","0","9","9">>, <<"0","0","0","0">>,
               <<"1","9","0","0">>, <<"2","4">> }
MonthParts == { <<"1">>, <<"0","1">>, <<"0","2">>, <<"1","2">>, <<"1","3">>, <<"0","0">> }
DayParts == { <<"5">>, <<"1","5">>, <<"2","9">>, <<"3","1">>, <<" ","5">>, <<"3","2">> }

Dates ==
  { y \o <<"-">> \o m \o <<"-">> \o d : y \in YearParts, m \in MonthParts, d \in DayParts }
  \cup { y \o <<"-">> \o m : y \in YearParts, m \in MonthParts }
  \cup YearParts
  \cup { <<>>, <<"-">>, <<"s","o","o","n">>, <<"-","2","0","2","4">>,
         <<"2","0","2","4","-","0","1","-","1","5"," ">>,
         <<"2","0","2","4","/","0","1","/","1","5">>,
         <<"J","a","n"," ","1","5","-","2","0","2","4">> }

InitId ==
  /\ FilesInit
  /\ call \in {[fn |-> "create_blog_id", title |-> t, publication_date |-> d] :
                 t \in Titles, d \in Dates}
  /\ ret = NoRet

CallCreateBlogId ==
  /\ call.fn = "create_blog_id"
  /\ ~ret.done
  /\ ret' = [done |-> TRUE, value |-> create_blog_id(call.title, call.publication_date)]
  /\ UNCHANGED call
  /\ FilesUntouched

SpecId == InitId /\ [][CallCreateBlogId]_vars

\* ---- clean_text_for_excerpt ----

MaxBodyLen == 4

BodyAlphabet == {"a", " ", "\n", "<", ">", "*", "#", "[", "]", "(", ")"}

Bodies ==
  StringsUpTo(BodyAlphabet, MaxBodyLen)
  \cup { <<"#","#"," ","H","i","\n","\n","<","b",">","a","b","c","<","/","b",">"," ","d","e","f">>,
         <<"s","e","e"," ","[","t","h","e"," ","d","o","c","s","]","(","u",")"," ","n","o","w">>,
         <<"*","*","b","o","l","d","*","*"," ","a","n","d"," ","*","i","t","*","\t","e","n","d">>,
         <<"a","b","c","d","e","f","g","h">> }

InitExcerpt ==
  /\ FilesInit
  /\ call \in {[fn |-> "clean_text_for_excerpt", raw_content |-> b, max_length |-> n] :
                 b \in Bodies, n \in 0..MaxBodyLen}
  /\ ret = NoRet

CallCleanText ==
  /\ call.fn = "clean_text_for_excerpt"
  /\ ~ret.done
  /\ ret' = [done |-> TRUE,
             value |-> clean_text_for_excerpt(call.raw_content, call.max_length)]
  /\ UNCHANGED call
  /\ FilesUntouched

SpecExcerpt == InitExcerpt /\ [][CallCleanText]_vars

\* ---- parse_yaml_frontmatter ----

\* the characters shared between the keys, the values and the body of an input
MaxFmChars == 3

FmAlphabet == {"a", " ", ":", "'", "\n"}

\* the strings of one length
FmStrings(n) == [1..n -> FmAlphabet]

\* how many parts (keys, values, body) share the characters: their lengths
FmLengths(parts) ==
  {l \in [1..parts -> 0..MaxFmChars] :
     l[1] + (IF parts >= 3 THEN l[2] + l[3] ELSE 0)
          + (IF parts >= 5 THEN l[4] + l[5] ELSE 0) <= MaxFmChars}

FmExamples ==
  { [pairs |-> << [key |-> TitleKey, value |-> <<"\"","M","y",":"," ","P","o","s","t","\"">>],
                  [key |-> DateKey, value |-> <<"2","0","2","4","-","0","1","-","1","5">>] >>,
     body |-> <<"\n","H","i","\n","-","-","-","\n","e","n","d","\n">>],
    [pairs |-> << [key |-> TitleKey, value |-> <<"'","i","t","'","s">>] >>,
     body |-> <<>>] }

ParseCall(pairs, body) == [fn |-> "parse_yaml_frontmatter", pairs |-> pairs, body |-> body]

\* every mapping of up to two pairs (with distinct keys) and every body that share
\* up to MaxFmChars characters, and the examples
InitFrontmatter ==
  /\ FilesInit
  /\ ret = NoRet
  /\ \/ \E l \in FmLengths(1) : \E b \in FmStrings(l[1]) : call = ParseCall(<<>>, b)
     \/ \E l \in FmLengths(3) :
          \E k \in FmStrings(l[1]), v \in FmStrings(l[2]), b \in FmStrings(l[3]) :
            call = ParseCall(<< [key |-> k, value |-> v] >>, b)
     \/ \E l \in FmLengths(5) :
          \E k1 \in FmStrings(l[1]), v1 \in FmStrings(l[2]),
             k2 \in FmStrings(l[3]), v2 \in FmStrings(l[4]), b \in FmStrings(l[5]) :
            /\ k1 # k2
            /\ call = ParseCall(<< [key |-> k1, value |-> v1],
                                   [key |-> k2, value |-> v2] >>, b)
     \/ \E i \in FmExamples : call = ParseCall(i.pairs, i.body)

CallParseFrontmatter ==
  /\ call.fn = "parse_yaml_frontmatter"
  /\ ~ret.done
  /\ ret' = [done |-> TRUE,
             value |-> parse_yaml_frontmatter(BuildDoc(call.pairs, call.body))]
  /\ UNCHANGED call
  /\ FilesUntouched

SpecFrontmatter == InitFrontmatter /\ [][CallParseFrontmatter]_vars

(***************************************************************************)
(* The script run on a site: main                                          *)
(***************************************************************************)

\* the number of markdown files in the posts directory
MaxBatchFiles == 2

\* the posts directories: absent, or up to MaxBatchFiles files in any order
PostsDirs ==
  { [exists |-> FALSE, files |-> <<>>] }
  \cup { [exists |-> TRUE, files |-> fs] :
           fs \in { f \in UNION {[1..k -> DirFiles] : k \in 0..MaxBatchFiles} :
                      \A i, j \in 1..Len(f) : i # j => f[i].name # f[j].name } }

Templates ==
  { NoTemplate,
    [exists |-> TRUE, content |-> <<"TXT", "OGS", "TXT", "OGE", "HEAD", "TXT">>],
    [exists |-> TRUE, content |-> <<"OGE", "TXT", "OGS", "HEAD">>] }

Init ==
  /\ FilesInit
  /\ call = NoCall
  /\ ret = NoRet

PureUntouched == UNCHANGED <<call, ret>>

\* the maintainer edits, adds or removes blogs/_blog_template.html
EditTemplate ==
  /\ lastOp = NoOp
  /\ \E t \in Templates \ {template} : template' = t
  /\ UNCHANGED <<indexFile, pages, lastOp>>
  /\ PureUntouched

\* python3 convert-blog.py
MainUsage ==
  /\ lastOp = NoOp
  /\ lastOp' = [op |-> "usage"]
  /\ UNCHANGED <<indexFile, pages, template>>
  /\ PureUntouched

\* lines 499-500: the index is updated when the file converted and the flag is given
SingleIndex(conv, should_update_index, file) ==
  IF ~conv.blog_metadata.isNone /\ should_update_index
  THEN update_blogs_index_file(conv.blog_metadata.value, file)
  ELSE file

\* python3 convert-blog.py <markdown-file> [--update-index]
MainSingle ==
  /\ lastOp = NoOp
  /\ \E markdown_file \in DirFiles \cup {Missing}, should_update_index \in BOOLEAN,
        today \in Todays :
    \E conv \in {convert_markdown_to_json(markdown_file, today, template, pages)} :
      /\ indexFile' = SingleIndex(conv, should_update_index, indexFile)
      /\ pages' = conv.pages
      /\ lastOp' = [op |-> "single",
                    files |-> <<markdown_file>>,
                    update_index |-> should_update_index,
                    template |-> template,
                    indexBefore |-> LoadIndex(indexFile),
                    converted |-> <<Conversion(conv, pages)>>,
                    wrote |-> ~conv.blog_metadata.isNone /\ should_update_index]
      /\ UNCHANGED template
      /\ PureUntouched

\* python3 convert-blog.py --convert-all
MainConvertAll ==
  /\ lastOp = NoOp
  /\ \E posts \in PostsDirs, today \in Todays :
    \E run \in {batch_convert_all_markdown_files(posts, today, template, indexFile,
                                                 pages)} :
      /\ indexFile' = run.indexFile
      /\ pages' = run.pages
      /\ lastOp' = [op |-> "batch",
                    files |-> posts.files,
                    update_index |-> FALSE,
                    template |-> template,
                    indexBefore |-> LoadIndex(indexFile),
                    converted |-> run.converted,
                    wrote |-> run.wrote]
      /\ UNCHANGED template
      /\ PureUntouched

\* lines 510-511: main() returns and the process ends; the files stay as it left them
MainReturn ==
  /\ lastOp # NoOp
  /\ lastOp' = NoOp
  /\ UNCHANGED <<indexFile, pages, template>>
  /\ PureUntouched

Next == EditTemplate \/ MainUsage \/ MainSingle \/ MainConvertAll \/ MainReturn

Spec == Init /\ [][Next]_vars

(***************************************************************************)
(* The index and the last run, as the claims read them                     *)
(***************************************************************************)

\* the records of blogs.yaml as the next run would load them
Index == LoadIndex(indexFile)

IsRun == lastOp.op \in {"single", "batch"}

\* a run that called update_blogs_index_file, and the record it passed
IsUpdate == lastOp.op = "single" /\ lastOp.wrote
NewRecord == lastOp.converted[1].blog_metadata.value

IsBatch == lastOp.op = "batch"

CountId(blogs, id) == Cardinality({i \in 1..Len(blogs) : blogs[i].id = id})
Count(blogs, blog) == Cardinality({i \in 1..Len(blogs) : blogs[i] = blog})
Has(blogs, blog) == \E i \in 1..Len(blogs) : blogs[i] = blog
Without(blogs, k) == SubSeq(blogs, 1, k - 1) \o SubSeq(blogs, k + 1, Len(blogs))

\* the records handed to the index by the last run, in the order they were made
Made == Collected(lastOp.converted)

\* the run's conversions of files that exist and can be read
ReadableTurns ==
  {i \in 1..Len(lastOp.files) : lastOp.files[i].exists /\ lastOp.files[i].readable}

\* the template showed no way to make a page during the last run
TemplateFails == ~lastOp.template.exists \/ ~HasOgBlock(lastOp.template.content)

(***************************************************************************)
(* C1                                                                      *)
(***************************************************************************)

\* C1: in every reachable state the index last written is sorted by date,
\* descending under string comparison: each record's date is at least the date of
\* the record after it.
C1_SortedByDate ==
  \A i \in 1..(Len(Index) - 1) : StrLeq(Index[i + 1].date, Index[i].date)

\* a batch run made an older record before a newer one and the index it wrote has
\* them the other way round
C1_NewerMovedFirst ==
  /\ IsBatch /\ lastOp.wrote
  /\ Len(Made) = 2
  /\ StrLess(Made[1].date, Made[2].date)
  /\ Index = <<Made[2], Made[1]>>

(***************************************************************************)
(* C2                                                                      *)
(***************************************************************************)

\* C2: replace case. When the index held a record with the new record's id, then
\* after update_blogs_index_file exactly one record has that id, it equals the new
\* record, and the index is as long as before.
C2_ReplaceKeepsOne ==
  (IsUpdate /\ CountId(lastOp.indexBefore, NewRecord.id) >= 1) =>
    /\ CountId(Index, NewRecord.id) = 1
    /\ \A i \in 1..Len(Index) : Index[i].id = NewRecord.id => Index[i] = NewRecord
    /\ Len(Index) = Len(lastOp.indexBefore)

(***************************************************************************)
(* C3                                                                      *)
(***************************************************************************)

\* C3: append case. When the index held no record with the new record's id, then
\* after update_blogs_index_file the index is one longer, holds the new record, and
\* taking the new record out leaves the records that were there, unchanged.
C3_AppendKeepsAll ==
  (IsUpdate /\ CountId(lastOp.indexBefore, NewRecord.id) = 0) =>
    /\ Len(Index) = Len(lastOp.indexBefore) + 1
    /\ \E k \in 1..Len(Index) :
         Index[k] = NewRecord /\ Without(Index, k) = lastOp.indexBefore

\* a record with a new id was put into an index that held others
C3_AppendedToOthers ==
  /\ IsUpdate
  /\ CountId(lastOp.indexBefore, NewRecord.id) = 0
  /\ Len(lastOp.indexBefore) >= 1
  /\ Has(Index, NewRecord)

(***************************************************************************)
(* C4                                                                      *)
(***************************************************************************)

\* C4: a batch run in which a file converted writes an index that holds exactly
\* the records made in this run, one for each file that converted and none from the
\* index before; a single-file update keeps each record of the index before whose
\* id is not the new record's.
C4_BatchReplacesSingleMerges ==
  /\ (IsBatch /\ Made # <<>>) =>
       /\ lastOp.wrote
       /\ Len(Index) = Len(Made)
       /\ Len(Index) = Cardinality(ReadableTurns)
       /\ \A i \in 1..Len(Made) : Count(Index, Made[i]) = Count(Made, Made[i])
  /\ IsUpdate =>
       \A i \in 1..Len(lastOp.indexBefore) :
         lastOp.indexBefore[i].id # NewRecord.id => Has(Index, lastOp.indexBefore[i])

\* a batch run dropped a record of the index before it
C4_BatchDroppedOld ==
  /\ IsBatch /\ lastOp.wrote
  /\ \E i \in 1..Len(lastOp.indexBefore) :
       /\ ~Has(Index, lastOp.indexBefore[i])
       /\ CountId(Index, lastOp.indexBefore[i].id) = 0

(***************************************************************************)
(* C5                                                                      *)
(***************************************************************************)

\* C5: when the template is absent or has no metadata-tag block, every call of
\* generate_blog_html in the run returns None and the page <id>.html is as it was
\* before the call (none if there was none).
C5_FailureWritesNothing ==
  (IsRun /\ TemplateFails) =>
    \A i \in 1..Len(lastOp.converted) :
      ~lastOp.converted[i].blog_metadata.isNone =>
        /\ lastOp.converted[i].html_path = None
        /\ lastOp.converted[i].pageAfter = lastOp.converted[i].pageBefore

\* generate_blog_html failed on a template without the block for a post whose page
\* an earlier run had written, and the page is still that one
C5_OldPageKept ==
  /\ IsRun
  /\ lastOp.template.exists /\ ~HasOgBlock(lastOp.template.content)
  /\ \E i \in 1..Len(lastOp.converted) :
       /\ ~lastOp.converted[i].blog_metadata.isNone
       /\ lastOp.converted[i].html_path = None
       /\ ~lastOp.converted[i].pageBefore.isNone
       /\ PageAt(pages, lastOp.converted[i].blog_metadata.value.id)
            = lastOp.converted[i].pageBefore

(***************************************************************************)
(* C6                                                                      *)
(***************************************************************************)

\* C6: the excerpt is at most max_length + 3 characters long, and when it is a
\* truncation it never cuts inside a word: it is a prefix of the first paragraph
\* followed by the ellipsis, and the prefix ends where the paragraph has whitespace
\* (or is empty).
C6_NeverCutsAWord ==
  ret.done =>
    LET paragraph == FirstParagraph(call.raw_content)
    IN  /\ Len(ret.value) <= call.max_length + 3
        /\ Len(paragraph) > call.max_length =>
             \E k \in 0..call.max_length :
               /\ ret.value = SubSeq(paragraph, 1, k) \o Ellipsis
               /\ k = 0 \/ IsSpace(paragraph[k]) \/ IsSpace(paragraph[k + 1])

(***************************************************************************)
(* C7                                                                      *)
(***************************************************************************)

\* value.strip("'\"")
StripQuotes(value) == StripSet(value, {"'", "\""})

\* the mapping a sequence of pairs with distinct keys stands for, quotes stripped
MappingOf(pairs) ==
  [key \in {pairs[i].key : i \in 1..Len(pairs)} |->
     StripQuotes((CHOOSE p \in {pairs[i] : i \in 1..Len(pairs)} : p.key = key).value)]

Trimmed(s) == s = <<>> \/ (~IsSpace(s[1]) /\ ~IsSpace(s[Len(s)]))

\* what one line of the block can hold: a key and a value without a line break and
\* without whitespace at either end, and a key without a colon
OneLinePairs(pairs) ==
  \A i \in 1..Len(pairs) :
    /\ ~Contains(pairs[i].key, "\n") /\ ~Contains(pairs[i].value, "\n")
    /\ Trimmed(pairs[i].key) /\ Trimmed(pairs[i].value)
    /\ ~Contains(pairs[i].key, ":")

\* C7 as stated: for every mapping and every body, the document built from them
\* parses back to the same pairs, quotes around the values stripped, and the same
\* body.
C7_RoundTripAnyMapping ==
  ret.done =>
    /\ ret.value.frontmatter_data = MappingOf(call.pairs)
    /\ ret.value.content = call.body

\* C7: for every mapping whose keys and values have no line break and no whitespace
\* at either end and whose keys have no colon, and for every body, the document
\* built from them parses back to the same pairs, quotes around the values
\* stripped, and the same body.
C7_RoundTripOneLinePairs ==
  (ret.done /\ OneLinePairs(call.pairs)) =>
    /\ ret.value.frontmatter_data = MappingOf(call.pairs)
    /\ ret.value.content = call.body

\* a document of two pairs, one value quoted and holding a colon, and a body that
\* holds a delimiter line, has been parsed back
C7_QuotedColonParsed ==
  /\ ret.done
  /\ Len(call.pairs) = 2 /\ OneLinePairs(call.pairs)
  /\ call.pairs[1].value = <<"\"","M","y",":"," ","P","o","s","t","\"">>
  /\ Find(call.body, ClosingDelimiter, 1) > 0
  /\ ret.value.frontmatter_data[call.pairs[1].key] = <<"M","y",":"," ","P","o","s","t">>
  /\ ret.value.content = call.body

(***************************************************************************)
(* C8                                                                      *)
(***************************************************************************)

\* the words of a title: its maximal runs of characters that are not whitespace
RECURSIVE WordsOf(_)
WordsOf(s) ==
  LET spaces == {i \in 1..Len(s) : IsSpace(s[i])}
      first == IF spaces = {} THEN Len(s) + 1
               ELSE CHOOSE i \in spaces : \A j \in spaces : i <= j
  IN  IF s = <<>> THEN <<>>
      ELSE IF first = 1 THEN WordsOf(Tail(s))
      ELSE <<SubSeq(s, 1, first - 1)>> \o WordsOf(From(s, first + 1))

\* a word lowercased, its letters and digits alone
LettersAndDigits(word) ==
  SelectSeq(Lower(word), LAMBDA c : IsAlpha(c) \/ IsDigit(c))

\* the slug: what is left of the words, those of which nothing is left running into
\* the whitespace around them, joined by single hyphens
RECURSIVE JoinWords(_, _)
JoinWords(words, pending) ==
  IF words = <<>> THEN <<>>
  ELSE IF words[1] = <<>> THEN JoinWords(Tail(words), pending)
  ELSE (IF pending THEN <<"-">> ELSE <<>>) \o words[1] \o JoinWords(Tail(words), TRUE)

SlugOf(title) ==
  LET words == WordsOf(title)
  IN  JoinWords([i \in 1..Len(words) |-> LettersAndDigits(words[i])], FALSE)

\* the year: the parsed year of a date that parses as YYYY-MM-DD, else what
\* precedes the first "-", else the date
YearPart(date) ==
  IF StrptimeYear(date) # -1 THEN IntToStr(StrptimeYear(date))
  ELSE IF Contains(date, "-") THEN SubSeq(date, 1, Find(date, <<"-">>, 1) - 1)
  ELSE date

IsLowerOrDigit(c) == (Ord(c) >= 97 /\ Ord(c) <= 122) \/ IsDigit(c)

\* C8: create_blog_id returns <slug>-<year>; the slug has only lowercase letters,
\* digits and single hyphens and neither starts nor ends with a hyphen; the year is
\* the parsed year, else what precedes the first "-" of the date, else the date;
\* ("My Great Post", "2024-01-15") gives "my-great-post-2024".
C8_SlugDashYear ==
  ret.done =>
    LET slug == SlugOf(call.title)
    IN  /\ ret.value = slug \o <<"-">> \o YearPart(call.publication_date)
        /\ \A i \in 1..Len(slug) : IsLowerOrDigit(slug[i]) \/ slug[i] = "-"
        /\ \A i \in 1..(Len(slug) - 1) : ~(slug[i] = "-" /\ slug[i + 1] = "-")
        /\ slug # <<>> => (slug[1] # "-" /\ slug[Len(slug)] # "-")
        /\ (/\ call.title = <<"M","y"," ","G","r","e","a","t"," ","P","o","s","t">>
            /\ call.publication_date = <<"2","0","2","4","-","0","1","-","1","5">>) =>
             ret.value = <<"m","y","-","g","r","e","a","t","-","p","o","s","t",
                           "-","2","0","2","4">>

\* the example of the claim has been computed
C8_MyGreatPost ==
  /\ ret.done
  /\ call.title = <<"M","y"," ","G","r","e","a","t"," ","P","o","s","t">>
  /\ call.publication_date = <<"2","0","2","4","-","0","1","-","1","5">>
  /\ ret.value = <<"m","y","-","g","r","e","a","t","-","p","o","s","t","-","2","0","2","4">>

(***************************************************************************)
(* C9                                                                      *)
(***************************************************************************)

\* C9: no two records of the index share an id, and after an update the record
\* with the new record's id is the new record.
C9_UniqueIds ==
  /\ \A i, j \in 1..Len(Index) : Index[i].id = Index[j].id => i = j
  /\ IsUpdate => \A i \in 1..Len(Index) :
                   Index[i].id = NewRecord.id => Index[i] = NewRecord

(***************************************************************************)
(* C10                                                                     *)
(***************************************************************************)

\* a run that is to write the index: a single file with --update-index, or a batch
WritesIndex == IsBatch \/ (lastOp.op = "single" /\ lastOp.update_index)

\* C10: every file that exists and can be read gives its record whether or not its
\* page was made; a run that is to write the index writes every such record into
\* it; and such a run leaves the index alone only when none of its files exists and
\* can be read.
C10_RecordSurvivesHtmlFailure ==
  IsRun =>
    /\ \A i \in ReadableTurns : ~lastOp.converted[i].blog_metadata.isNone
    /\ WritesIndex =>
         /\ \A i \in ReadableTurns : Has(Index, lastOp.converted[i].blog_metadata.value)
         /\ ~lastOp.wrote => ReadableTurns = {}

\* the template gave no page, and the index holds the record of a post that has no
\* page at all
C10_RecordWithoutPage ==
  /\ IsRun /\ WritesIndex /\ lastOp.wrote
  /\ TemplateFails
  /\ \E i \in ReadableTurns :
       /\ lastOp.converted[i].html_path = None
       /\ Has(Index, lastOp.converted[i].blog_metadata.value)
       /\ PageAt(pages, lastOp.converted[i].blog_metadata.value.id) = None


====
